---- MODULE Spec2Model ----
(***************************************************************************)
(* The live service-log panel of cockpit-container-apps                    *)
(* (frontend/src/components/ServiceLog.tsx): the bounded entry buffer, the *)
(* journal subscription life cycle driven by the React stream effect, and  *)
(* the scroll-follow flag.                                                 *)
(*                                                                         *)
(* streamServiceJournal is imported from frontend/src/api; its handle      *)
(* (OpenHandle, CloseHandle, MayDeliver) follows section 4.3 of the        *)
(* specification: Idle -> Streaming -> Closed, close() idempotent, no      *)
(* callback once Closed, a transport failure terminal.                     *)
(***************************************************************************)
EXTENDS Integers, Sequences, FiniteSets, TLC

(* ------------------------------ bounds --------------------------------- *)

\* Subscriptions the panel may open in one behaviour (handle ids 1..MaxOpens).
MaxOpens == 2

\* Lines the journal delivers in one behaviour of Spec (caps nextId).
MaxLines == 250

\* A subscription opened after more than MaxBurst lines were delivered receives
\* at most MaxBurst lines: one subscription of a behaviour is long, the others short.
MaxBurst == 2

\* Lines the journal delivers in one behaviour of ScrollSpec.
MaxScrollLines == 24

\* Calls of onInstall followed in InstallSpec.
MaxInstallCalls == 2

\* Calls of loadConfiguration that may be awaiting the backend at one time.
MaxInFlight == 2

\* Chunks (plain characters, escape sequences, fragments of them) a line of
\* ParseSpec is made of.
MaxChunks == 3

(* --------------------------- program constants ------------------------- *)

\* mutant: the capacity taken one too small
MAX_LOG_LINES_OneLess == 200 - 1

MAX_LOG_LINES == 200

\* handleScroll: "< 30"
FollowThreshold == 30

\* maxHeight: '400px'
MaxHeight == 400

\* padding: '0.75rem', at 16px per rem
Padding == (75 * 16) \div 100

\* fontSize: '0.85rem' times lineHeight: '1.4', at 16px per rem, in whole px
LineHeight == (85 * 14 * 16) \div 1000

\* error: string | null
Null == "<null>"

\* The package names the owning view may pass as packageName.
Packages == {"signalk-server", "grafana"}

\* The messages a transport failure may carry.
Messages == {"", "journal: connection lost"}

Handles == 1..MaxOpens

Min(a, b) == IF a < b THEN a ELSE b

(* ------------------------------- state --------------------------------- *)

VARIABLES
    phase,            \* "init" before mount, "mounted", "unmounted"
    packageName,      \* prop packageName
    isExpanded,       \* useState(initialExpanded)
    entries,          \* useState<LogEntry[]>([])
    error,            \* useState<string | null>(null)
    streamRef,        \* useRef<JournalStreamHandle | null>: 0 is null
    shouldAutoScroll, \* useRef(true)
    nextId,           \* useRef(0)
    cleanup,          \* the handle captured by the stream effect's cleanup, 0 if none
    scrollTop,        \* containerRef.current.scrollTop (0 while there is no container)
    handles,          \* the subscriptions streamServiceJournal has handed out
    opened,           \* how many subscriptions have been opened
    tornDown,         \* handles whose owning effect has been cleaned up
    pending,          \* the entry texts still to be rendered by AnsiLine
    parser,           \* parseAnsi's activation: its locals and its position
    rendered,         \* the spans AnsiLine got for each entry rendered so far
    appDetails,       \* AppDetails: its props pkg and isActionInProgress, its state
    onInstallCalls,   \* the arguments onInstall was called with, in order
    lastEvent,        \* the AppDetails event handled last
    cfgProps,         \* AppDetails props pkg.name and pkg.installed
    cfg,              \* AppDetails configuration state (the useState cells)
    loads,            \* package names of the loadConfiguration calls awaiting the backend
    save,             \* the handleConfigSave call awaiting the backend, if any
    backend,          \* the configuration the backend stores per package
    modal,            \* StoreEditorModal: prop isOpen and the useState cells
    storeLoads,       \* how many loadStores calls are awaiting listStorePackages
    job,              \* the handleSave call in progress: operations left and done
    installedStores,  \* the store packages installed on the system
    modalLast         \* the StoreEditorModal step taken last and the callbacks it called

logVars == <<phase, packageName, isExpanded, entries, error, streamRef,
             shouldAutoScroll, nextId, cleanup, scrollTop, handles, opened, tornDown>>

parseVars == <<pending, parser, rendered>>

installVars == <<appDetails, onInstallCalls, lastEvent>>

configVars == <<cfgProps, cfg, loads, save, backend>>

modalVars == <<modal, storeLoads, job, installedStores, modalLast>>

vars == <<logVars, parseVars, installVars, configVars, modalVars>>

IdleHandle ==
    [state |-> "Idle", pkg |-> "", cursor |-> 0, failed |-> FALSE,
     released |-> 0, onError |-> FALSE, errCalls |-> 0]

(* --------------------- the journal source (input) ---------------------- *)

\* Line i (0-indexed) of the journal of pkg: plain text, no escape codes.
LineText(pkg, i) == <<pkg, i>>

(* ------------------ streamServiceJournal (from the spec) --------------- *)

\* open(sourceId, onLine, {onError}) -> a new handle in Streaming
OpenHandle(hs, h, pkg, opts) ==
    [hs EXCEPT ![h] = [state |-> "Streaming", pkg |-> pkg, cursor |-> 0,
                       failed |-> FALSE, released |-> 0,
                       onError |-> opts.onError, errCalls |-> 0]]

\* handle.close(): idempotent, releases the resource on the first call only
CloseHandle(hs, h) ==
    IF hs[h].state = "Streaming"
    THEN [hs EXCEPT ![h].state = "Closed", ![h].released = @ + 1, ![h].cursor = 0]
    ELSE hs

\* the transport may call back only on a handle that is still Streaming
MayDeliver(hs, h) == hs[h].state = "Streaming"

(* --------------------------- scroll geometry --------------------------- *)

ContainerPresent(ph, exp) == ph = "mounted" /\ exp

\* rows rendered inside the container (lines 216-226)
Rows(es, err) ==
    IF err # Null /\ err # "" THEN 1
    ELSE IF Len(es) = 0 THEN 1
    ELSE Len(es)

ScrollHeight(es, err) == 2 * Padding + Rows(es, err) * LineHeight

ClientHeight(es, err) == Min(ScrollHeight(es, err), MaxHeight)

MaxScrollTop(es, err) == ScrollHeight(es, err) - ClientHeight(es, err)

(* ------------------------------ handlers ------------------------------- *)

\* mutant: the threshold compared with <= instead of <
AtBottom_Inclusive(sh, st, ch) == sh - st - ch <= FollowThreshold

\* handleScroll (lines 134-139), el present
AtBottom(sh, st, ch) == sh - st - ch < FollowThreshold

\* mutant: the handler does not check that the container is there
handleScroll_NoGuard(present, follow, sh, st, ch) == AtBottom(sh, st, ch)

\* handleScroll (lines 134-139): if (!el) return; else store the comparison
handleScroll(present, follow, sh, st, ch) ==
    IF ~present THEN follow ELSE AtBottom(sh, st, ch)

\* what the container shows (lines 216-226): error ? ... : entries.length === 0 ? ...
Shows(es, err) ==
    IF err # Null /\ err # "" THEN "failure"
    ELSE IF Len(es) = 0 THEN "empty"
    ELSE "entries"

\* the browser keeps scrollTop within the content; no container, no position
Clamp(present, top, es, err) ==
    IF present THEN Min(top, MaxScrollTop(es, err)) ELSE 0

\* mutant: the effect scrolls without consulting the flag
AutoScrollEffect_Always(follow, present, top, es, err) ==
    IF present THEN MaxScrollTop(es, err) ELSE top

\* the auto-scroll effect (lines 141-145): logEndRef.current.scrollIntoView
\* when the flag is set and the end marker is rendered, else nothing
AutoScrollEffect(follow, present, top, es, err) ==
    IF follow /\ present THEN MaxScrollTop(es, err) ELSE top

\* mutant: the updater never trims
OnLineUpdater_NoTrim(prev, id, line) ==
    Append(prev, [id |-> id, text |-> line])

\* mutant: the updater keeps the head, next.slice(0, MAX_LOG_LINES)
OnLineUpdater_KeepHead(prev, id, line) ==
    LET next == Append(prev, [id |-> id, text |-> line])
    IN  IF Len(next) > MAX_LOG_LINES
        THEN SubSeq(next, 1, MAX_LOG_LINES)
        ELSE next

\* mutant: the entry's id taken from the buffer length instead of nextId
OnLineUpdater_IdFromLength(prev, id, line) ==
    LET next == Append(prev, [id |-> Len(prev), text |-> line])
    IN  IF Len(next) > MAX_LOG_LINES
        THEN SubSeq(next, Len(next) - MAX_LOG_LINES + 1, Len(next))
        ELSE next

\* the setEntries updater of onLine (lines 162-169)
OnLineUpdater(prev, id, line) ==
    LET next == Append(prev, [id |-> id, text |-> line])
    IN  IF Len(next) > MAX_LOG_LINES
        THEN SubSeq(next, Len(next) - MAX_LOG_LINES + 1, Len(next))
        ELSE next

\* mutant: no onError callback is passed
StreamOptions_NoOnError == [onError |-> FALSE]

\* the options object passed to streamServiceJournal (lines 171-173)
StreamOptions == [onError |-> TRUE]

\* mutant: the cleanup forgets handle.close()
EffectCleanup_NoClose(s) ==
    IF s.cleanup = 0 THEN s
    ELSE [s EXCEPT !.streamRef = 0,
                   !.tornDown = @ \cup {s.cleanup},
                   !.cleanup = 0]

\* mutant: the cleanup forgets streamRef.current = null
EffectCleanup_KeepRef(s) ==
    IF s.cleanup = 0 THEN s
    ELSE [s EXCEPT !.handles = CloseHandle(s.handles, s.cleanup),
                   !.tornDown = @ \cup {s.cleanup},
                   !.cleanup = 0]

\* the cleanup returned by the stream effect (lines 177-180):
\* handle.close(); streamRef.current = null
EffectCleanup(s) ==
    IF s.cleanup = 0 THEN s
    ELSE [s EXCEPT !.handles = CloseHandle(s.handles, s.cleanup),
                   !.streamRef = 0,
                   !.tornDown = @ \cup {s.cleanup},
                   !.cleanup = 0]

\* mutant: the effect returns no cleanup
EffectBody_NoCleanupReturned(s, exp, pkg) ==
    IF ~exp
    THEN IF s.streamRef # 0
         THEN [s EXCEPT !.handles = CloseHandle(s.handles, s.streamRef),
                        !.tornDown = @ \cup {s.streamRef},
                        !.streamRef = 0]
         ELSE s
    ELSE LET h == s.opened + 1
         IN  [s EXCEPT !.entries = <<>>,
                       !.error = Null,
                       !.handles = OpenHandle(s.handles, h, pkg, StreamOptions),
                       !.opened = h,
                       !.streamRef = h]

\* mutant: an expand revives the handle opened last instead of opening one
EffectBody_ReuseHandle(s, exp, pkg) ==
    IF ~exp
    THEN IF s.streamRef # 0
         THEN [s EXCEPT !.handles = CloseHandle(s.handles, s.streamRef),
                        !.tornDown = @ \cup {s.streamRef},
                        !.streamRef = 0]
         ELSE s
    ELSE LET h == IF s.opened = 0 THEN 1 ELSE s.opened
         IN  [s EXCEPT !.entries = <<>>,
                       !.error = Null,
                       !.handles = OpenHandle(s.handles, h, pkg, StreamOptions),
                       !.opened = h,
                       !.streamRef = h,
                       !.cleanup = h]

\* mutant: the open forgets setEntries([])
EffectBody_KeepsEntries(s, exp, pkg) ==
    IF ~exp
    THEN IF s.streamRef # 0
         THEN [s EXCEPT !.handles = CloseHandle(s.handles, s.streamRef),
                        !.tornDown = @ \cup {s.streamRef},
                        !.streamRef = 0]
         ELSE s
    ELSE LET h == s.opened + 1
         IN  [s EXCEPT !.error = Null,
                       !.handles = OpenHandle(s.handles, h, pkg, StreamOptions),
                       !.opened = h,
                       !.streamRef = h,
                       !.cleanup = h]

\* the body of the stream effect (lines 148-175)
EffectBody(s, exp, pkg) ==
    IF ~exp
    THEN IF s.streamRef # 0
         THEN [s EXCEPT !.handles = CloseHandle(s.handles, s.streamRef),
                        !.tornDown = @ \cup {s.streamRef},
                        !.streamRef = 0]
         ELSE s
    ELSE LET h == s.opened + 1
         IN  [s EXCEPT !.entries = <<>>,
                       !.error = Null,
                       !.handles = OpenHandle(s.handles, h, pkg, StreamOptions),
                       !.opened = h,
                       !.streamRef = h,
                       !.cleanup = h]

\* mutant: the previous run's cleanup is skipped when the effect runs again
StreamEffect_NoCleanup(s, exp, pkg) == EffectBody(s, exp, pkg)

\* the stream effect when one of its dependencies [isExpanded, packageName] changed
StreamEffect(s, exp, pkg) == EffectBody(EffectCleanup(s), exp, pkg)

EffectState ==
    [handles |-> handles, streamRef |-> streamRef, cleanup |-> cleanup,
     tornDown |-> tornDown, entries |-> entries, error |-> error,
     opened |-> opened]

Commit(s) ==
    /\ handles' = s.handles
    /\ streamRef' = s.streamRef
    /\ cleanup' = s.cleanup
    /\ tornDown' = s.tornDown
    /\ entries' = s.entries
    /\ error' = s.error
    /\ opened' = s.opened

(* ------------------------------- actions ------------------------------- *)

LogInit ==
    /\ phase = "init"
    /\ packageName = "signalk-server"
    /\ isExpanded = FALSE
    /\ entries = <<>>
    /\ error = Null
    /\ streamRef = 0
    /\ shouldAutoScroll = TRUE
    /\ nextId = 0
    /\ cleanup = 0
    /\ scrollTop = 0
    /\ handles = [h \in Handles |-> IdleHandle]
    /\ opened = 0
    /\ tornDown = {}

(* ------------------------------ parseAnsi ------------------------------ *)

\* A line is a sequence of characters; "ESC" stands for the character \x1b.
Esc == "ESC"

\* color?: string
Undefined == "<undefined>"

DigitChars == <<"0", "1", "2", "3", "4", "5", "6", "7", "8", "9">>

Digits == {DigitChars[k] : k \in 1..Len(DigitChars)}

DigitVal(c) == (CHOOSE k \in 1..Len(DigitChars) : DigitChars[k] = c) - 1

\* ANSI_COLORS (lines 24-41)
ANSI_COLORS ==
    (30 :> "#555") @@ (31 :> "#c00") @@ (32 :> "#0a0") @@ (33 :> "#a50") @@
    (34 :> "#00c") @@ (35 :> "#c0c") @@ (36 :> "#0cc") @@ (37 :> "#ccc") @@
    (90 :> "#888") @@ (91 :> "#f55") @@ (92 :> "#5f5") @@ (93 :> "#ff5") @@
    (94 :> "#55f") @@ (95 :> "#f5f") @@ (96 :> "#5ff") @@ (97 :> "#fff")

\* [0-9;]* is greedy: the first index at or after j that holds no digit and no ';'
RECURSIVE ParamRunEnd(_, _)
ParamRunEnd(t, j) ==
    IF j <= Len(t) /\ t[j] \in Digits \cup {";"}
    THEN ParamRunEnd(t, j + 1)
    ELSE j

\* /\x1b\[([0-9;]*)m/ matches at index i (1-based)
MatchesAt(t, i) ==
    /\ i + 2 <= Len(t)
    /\ t[i] = Esc
    /\ t[i + 1] = "["
    /\ LET j == ParamRunEnd(t, i + 2) IN j <= Len(t) /\ t[j] = "m"

\* re.exec(text) with the g flag (lines 55, 61): the leftmost match at or after
\* lastIndex; index and end are 0-based as in JavaScript, group is match[1]
RegexExec(t, lastIndex) ==
    LET found == {i \in (lastIndex + 1)..Len(t) : MatchesAt(t, i)}
    IN  IF found = {}
        THEN [matched |-> FALSE, index |-> 0, end |-> 0, group |-> <<>>]
        ELSE LET i == CHOOSE x \in found : \A y \in found : x <= y
                 j == ParamRunEnd(t, i + 2)
             IN  [matched |-> TRUE, index |-> i - 1, end |-> j,
                  group |-> SubSeq(t, i + 2, j - 1)]

\* String.prototype.split(';')
RECURSIVE SplitSemi(_)
SplitSemi(g) ==
    LET at == {k \in 1..Len(g) : g[k] = ";"}
    IN  IF at = {}
        THEN <<g>>
        ELSE LET k == CHOOSE x \in at : \A y \in at : x <= y
             IN  <<SubSeq(g, 1, k - 1)>> \o SplitSemi(SubSeq(g, k + 1, Len(g)))

\* Number(s) for a string of decimal digits; Number('') is 0
RECURSIVE NumberOf(_)
NumberOf(ds) ==
    IF ds = <<>> THEN 0
    ELSE NumberOf(SubSeq(ds, 1, Len(ds) - 1)) * 10 + DigitVal(ds[Len(ds)])

\* the codes come out last first
ParamsOf_Reversed(group) ==
    IF group # <<>>
    THEN LET parts == SplitSemi(group)
         IN  [k \in 1..Len(parts) |-> NumberOf(parts[Len(parts) + 1 - k])]
    ELSE <<0>>

\* line 67: match[1] ? match[1].split(';').map(Number) : [0]
ParamsOf(group) ==
    IF group # <<>>
    THEN LET parts == SplitSemi(group)
         IN  [k \in 1..Len(parts) |-> NumberOf(parts[k])]
    ELSE <<0>>

\* code 39 behaves as a full reset
ApplySgr_39ClearsBold(style, code) ==
    IF code = 0 \/ code = 39 THEN [color |-> Undefined, bold |-> FALSE]
    ELSE IF code = 1 THEN [style EXCEPT !.bold = TRUE]
    ELSE IF code \in DOMAIN ANSI_COLORS THEN [style EXCEPT !.color = ANSI_COLORS[code]]
    ELSE style

\* a code outside the table behaves as a full reset
ApplySgr_UnknownResets(style, code) ==
    IF code = 1 THEN [style EXCEPT !.bold = TRUE]
    ELSE IF code = 39 THEN [style EXCEPT !.color = Undefined]
    ELSE IF code \in DOMAIN ANSI_COLORS THEN [style EXCEPT !.color = ANSI_COLORS[code]]
    ELSE [color |-> Undefined, bold |-> FALSE]

\* the body of the for loop (lines 69-78) on the style [color, bold]
ApplySgr(style, code) ==
    IF code = 0 THEN [color |-> Undefined, bold |-> FALSE]
    ELSE IF code = 1 THEN [style EXCEPT !.bold = TRUE]
    ELSE IF code = 39 THEN [style EXCEPT !.color = Undefined]
    ELSE IF code \in DOMAIN ANSI_COLORS THEN [style EXCEPT !.color = ANSI_COLORS[code]]
    ELSE style

\* { text: text.slice(from, to), color, bold }
SpanOf(t, from, to, color, bold) ==
    [text |-> SubSeq(t, from + 1, to), color |-> color, bold |-> bold]

\* the slice runs one character into the match
BeforeMatch_ThroughEscape(p, index) ==
    IF index > p.lastIndex
    THEN Append(p.spans, SpanOf(p.text, p.lastIndex, index + 1, p.color, p.bold))
    ELSE p.spans

\* a span is pushed before every match, even an empty one
BeforeMatch_AlwaysPush(p, index) ==
    Append(p.spans, SpanOf(p.text, p.lastIndex, index, p.color, p.bold))

\* lines 62-64: the text between the previous match and this one
BeforeMatch(p, index) ==
    IF index > p.lastIndex
    THEN Append(p.spans, SpanOf(p.text, p.lastIndex, index, p.color, p.bold))
    ELSE p.spans

\* the text after the last match is dropped
AfterLoop_Dropped(p) == p.spans

\* a span is pushed even when no text is left
AfterLoop_Always(p) ==
    Append(p.spans, SpanOf(p.text, p.lastIndex, Len(p.text), p.color, p.bold))

\* lines 82-84: the text after the last match
AfterLoop(p) ==
    IF p.lastIndex < Len(p.text)
    THEN Append(p.spans, SpanOf(p.text, p.lastIndex, Len(p.text), p.color, p.bold))
    ELSE p.spans

\* no activation yet
IdleParser ==
    [pc |-> "idle", text |-> <<>>, lastIndex |-> 0, color |-> Undefined,
     bold |-> FALSE, spans |-> <<>>, params |-> <<>>]

\* color and bold live outside the function and survive from call to call
Enter_KeepStyle(p, t) ==
    [pc |-> "scan", text |-> t, lastIndex |-> 0, color |-> p.color,
     bold |-> p.bold, spans |-> <<>>, params |-> <<>>]

\* parseAnsi(text) is entered: its locals (lines 54-58)
Enter(p, t) ==
    [pc |-> "scan", text |-> t, lastIndex |-> 0, color |-> Undefined,
     bold |-> FALSE, spans |-> <<>>, params |-> <<>>]

\* one evaluation of the while condition (line 61) with lines 62-67 when it
\* matched, lines 82-86 when it did not
ExecStep(p) ==
    LET m == RegexExec(p.text, p.lastIndex)
    IN  IF m.matched
        THEN [p EXCEPT !.spans = BeforeMatch(p, m.index),
                       !.lastIndex = m.end,
                       !.params = ParamsOf(m.group),
                       !.pc = "codes"]
        ELSE [p EXCEPT !.spans = AfterLoop(p), !.pc = "returned"]

\* one iteration of for (const code of params) (lines 68-79)
CodeStep(p) ==
    LET style == ApplySgr([color |-> p.color, bold |-> p.bold], Head(p.params))
    IN  [p EXCEPT !.color = style.color,
                  !.bold = style.bold,
                  !.params = Tail(p.params),
                  !.pc = IF Tail(p.params) = <<>> THEN "scan" ELSE "codes"]

\* AnsiLine calls parseAnsi(text) for the next entry (line 90)
Call ==
    /\ parser.pc \in {"idle", "returned"}
    /\ pending # <<>>
    /\ parser' = Enter(parser, Head(pending))
    /\ pending' = Tail(pending)
    /\ UNCHANGED <<rendered, logVars, installVars, configVars, modalVars>>

\* the while condition is evaluated; when it is null parseAnsi returns and
\* AnsiLine has the spans of this entry (line 90)
Exec ==
    /\ parser.pc = "scan"
    /\ parser' = ExecStep(parser)
    /\ rendered' = IF parser'.pc = "returned"
                   THEN Append(rendered, parser'.spans)
                   ELSE rendered
    /\ UNCHANGED <<pending, logVars, installVars, configVars, modalVars>>

ApplyCode ==
    /\ parser.pc = "codes"
    /\ parser' = CodeStep(parser)
    /\ UNCHANGED <<pending, rendered, logVars, installVars, configVars, modalVars>>

\* the pieces the lines of ParseSpec are built from
Sgr(ps) == <<Esc, "[">> \o ps \o <<"m">>

Chunks ==
    { <<"a">>, <<"m">>, <<"3">>, <<Esc>>, <<Esc, "[">>,
      Sgr(<<"0">>), Sgr(<<"1">>), Sgr(<<"3", "1">>), Sgr(<<"3", "9">>),
      Sgr(<<"9", "1">>), Sgr(<<"1", ";", "3", "2">>),
      Sgr(<<"3", "2", ";", "0">>), Sgr(<<"3", "1", ";", "4">>) }

RECURSIVE LinesOf(_)
LinesOf(n) ==
    IF n = 0 THEN {<<>>}
    ELSE LET shorter == LinesOf(n - 1)
         IN  shorter \cup {l \o c : l \in shorter, c \in Chunks}

\* a code of two digits as it is written in a line
TwoDigits(n) == <<DigitChars[(n \div 10) + 1], DigitChars[(n % 10) + 1]>>

RECURSIVE JoinCodes(_)
JoinCodes(cs) ==
    IF Len(cs) = 1 THEN TwoDigits(cs[1])
    ELSE TwoDigits(cs[1]) \o <<";">> \o JoinCodes(Tail(cs))

\* one sequence that names every code of ANSI_COLORS, then text
PaletteLine ==
    Sgr(JoinCodes(<<30, 31, 32, 33, 34, 35, 36, 37,
                    90, 91, 92, 93, 94, 95, 96, 97>>)) \o <<"a">>

\* what follows the first line in the buffer
SecondLines == { <<"a">>, Sgr(<<"1">>) \o <<"a">>, PaletteLine }

(* ------------------------------ AppDetails ----------------------------- *)

\* the keys of STATUS_CONFIG; each entry has a non-empty installWarning
STATUS_CONFIG == {"experimental", "beta", "deprecated"}

\* pkg.status as the caller may pass it: absent, empty, a key of STATUS_CONFIG
\* or another string
Statuses == {Null, "", "experimental", "deprecated", "stable"}

\* getStatusConfig(status)?.installWarning is truthy
InstallWarning(status) ==
    IF status = Null \/ status = "" THEN FALSE
    ELSE status \in STATUS_CONFIG

\* the props pkg the model follows; upgradable matters for installed ones only
Pkgs ==
    {[name |-> "grafana", installed |-> i, upgradable |-> u, status |-> st] :
        i \in BOOLEAN, u \in BOOLEAN, st \in Statuses}

\* AppDetails is not mounted
NoDetails ==
    [mounted |-> FALSE,
     pkg |-> [name |-> "grafana", installed |-> FALSE, upgradable |-> FALSE,
              status |-> Null],
     isActionInProgress |-> FALSE, showInstallConfirm |-> FALSE]

\* the confirmation modal is rendered and open
DialogOpen(d) == d.mounted /\ InstallWarning(d.pkg.status) /\ d.showInstallConfirm

\* the Install button goes straight to onInstall
handleInstallClick_NoConfirm(d, calls) ==
    [details |-> d, calls |-> Append(calls, d.pkg)]

handleInstallClick(d, calls) ==
    IF InstallWarning(d.pkg.status) /\ ~d.pkg.installed
    THEN [details |-> [d EXCEPT !.showInstallConfirm = TRUE], calls |-> calls]
    ELSE [details |-> d, calls |-> Append(calls, d.pkg)]

\* AppDetails is rendered for the first time
MountDetails(pkg) ==
    /\ ~appDetails.mounted
    /\ appDetails' = [mounted |-> TRUE, pkg |-> pkg, isActionInProgress |-> FALSE,
                      showInstallConfirm |-> FALSE]
    /\ lastEvent' = "mount"
    /\ UNCHANGED <<onInstallCalls, logVars, parseVars, configVars, modalVars>>

\* the parent renders AppDetails again with other props; the state is kept
PropsChange(pkg, busy) ==
    /\ appDetails.mounted
    /\ appDetails' = [appDetails EXCEPT !.pkg = pkg, !.isActionInProgress = busy]
    /\ lastEvent' = "props"
    /\ UNCHANGED <<onInstallCalls, logVars, parseVars, configVars, modalVars>>

\* the Install button, shown for a package that is not installed
ClickInstall ==
    /\ appDetails.mounted
    /\ ~DialogOpen(appDetails)
    /\ ~appDetails.pkg.installed
    /\ ~appDetails.isActionInProgress
    /\ Len(onInstallCalls) < MaxInstallCalls
    /\ LET r == handleInstallClick(appDetails, onInstallCalls)
       IN  appDetails' = r.details /\ onInstallCalls' = r.calls
    /\ lastEvent' = "Install"
    /\ UNCHANGED <<logVars, parseVars, configVars, modalVars>>

\* the Update button, shown for an installed package that is upgradable
ClickUpdate ==
    /\ appDetails.mounted
    /\ ~DialogOpen(appDetails)
    /\ appDetails.pkg.installed
    /\ appDetails.pkg.upgradable
    /\ ~appDetails.isActionInProgress
    /\ Len(onInstallCalls) < MaxInstallCalls
    /\ onInstallCalls' = Append(onInstallCalls, appDetails.pkg)
    /\ lastEvent' = "Update"
    /\ UNCHANGED <<appDetails, logVars, parseVars, configVars, modalVars>>

\* 'Install anyway' in the modal
ClickInstallAnyway ==
    /\ DialogOpen(appDetails)
    /\ Len(onInstallCalls) < MaxInstallCalls
    /\ appDetails' = [appDetails EXCEPT !.showInstallConfirm = FALSE]
    /\ onInstallCalls' = Append(onInstallCalls, appDetails.pkg)
    /\ lastEvent' = "InstallAnyway"
    /\ UNCHANGED <<logVars, parseVars, configVars, modalVars>>

\* Cancel in the modal
ClickCancel ==
    /\ DialogOpen(appDetails)
    /\ appDetails' = [appDetails EXCEPT !.showInstallConfirm = FALSE]
    /\ lastEvent' = "Cancel"
    /\ UNCHANGED <<onInstallCalls, logVars, parseVars, configVars, modalVars>>

\* the modal's onClose (its close button, the Escape key)
CloseDialog ==
    /\ DialogOpen(appDetails)
    /\ appDetails' = [appDetails EXCEPT !.showInstallConfirm = FALSE]
    /\ lastEvent' = "Close"
    /\ UNCHANGED <<onInstallCalls, logVars, parseVars, configVars, modalVars>>

InstallNext ==
    \/ \E pkg \in Pkgs : MountDetails(pkg)
    \/ \E pkg \in Pkgs, busy \in BOOLEAN : PropsChange(pkg, busy)
    \/ ClickInstall
    \/ ClickUpdate
    \/ ClickInstallAnyway
    \/ ClickCancel
    \/ CloseDialog

(* ----------------- AppDetails: configuration load and save ------------ *)

\* the values a configuration may take in the backend
ConfigValues == {0, 1}

\* useState<ConfigValues>({})
EmptyConfig == <<>>

\* what getConfigSchema(name) resolves to
SchemaOf(name) == <<"schema", name>>

\* what getConfig(name) resolves to
ConfigOf(b, name) == <<name, b[name]>>

IdleSave == [stage |-> "idle", name |-> "", newConfig |-> 0, warning |-> Null]

\* the state cells before the first render (lines 481-488)
InitialCfg ==
    [mounted |-> FALSE, configSchema |-> Null, config |-> EmptyConfig,
     isLoadingConfig |-> FALSE, configError |-> Null, isSavingConfig |-> FALSE,
     saveError |-> Null, saveWarning |-> Null]

ConfigInit ==
    /\ cfgProps = [name |-> "grafana", installed |-> FALSE]
    /\ cfg = InitialCfg
    /\ loads = <<>>
    /\ save = IdleSave
    /\ backend \in [Packages -> {0}]

RemoveAt(q, i) == SubSeq(q, 1, i - 1) \o SubSeq(q, i + 1, Len(q))

\* the effect on [pkg.installed, pkg.name] (lines 490-500) with the synchronous
\* part of loadConfiguration (lines 502-504)
ConfigEffect(c, ls, p) ==
    IF p.installed
    THEN [cfg |-> [c EXCEPT !.isLoadingConfig = TRUE, !.configError = Null],
          loads |-> Append(ls, p.name)]
    ELSE [cfg |-> [c EXCEPT !.configSchema = Null, !.config = EmptyConfig,
                            !.configError = Null],
          loads |-> ls]

\* loadConfiguration after its await (lines 505-520); ok: Promise.all resolved
AfterLoad(c, b, name, ok) ==
    IF ok
    THEN [c EXCEPT !.configSchema = SchemaOf(name), !.config = ConfigOf(b, name),
                   !.isLoadingConfig = FALSE]
    ELSE [c EXCEPT !.configError = "load failed", !.configSchema = Null,
                   !.isLoadingConfig = FALSE]

\* mutant: getConfig is called whether setConfig succeeded or not
AfterSetConfig_ReloadAlways(c, sv, ok, w) ==
    [cfg |-> c, save |-> [sv EXCEPT !.stage = "getConfig", !.warning = w]]

\* handleConfigSave after await setConfig (lines 527-529, 534-539)
AfterSetConfig(c, sv, ok, w) ==
    IF ok
    THEN [cfg |-> c, save |-> [sv EXCEPT !.stage = "getConfig", !.warning = w]]
    ELSE [cfg |-> [c EXCEPT !.saveError = "save failed", !.isSavingConfig = FALSE],
          save |-> IdleSave]

\* handleConfigSave after await getConfig (lines 529-539)
AfterGetConfig(c, sv, b, ok) ==
    IF ok
    THEN [c EXCEPT !.config = ConfigOf(b, sv.name),
                   !.saveWarning = IF sv.warning # Null /\ sv.warning # ""
                                   THEN sv.warning ELSE @,
                   !.isSavingConfig = FALSE]
    ELSE [c EXCEPT !.saveError = "save failed", !.isSavingConfig = FALSE]

\* first render of AppDetails and first run of the effect
MountConfig(p) ==
    /\ ~cfg.mounted
    /\ cfgProps' = p
    /\ LET r == ConfigEffect([cfg EXCEPT !.mounted = TRUE], loads, p)
       IN  cfg' = r.cfg /\ loads' = r.loads
    /\ UNCHANGED <<save, backend>>

\* the parent passes another pkg: a dependency of the effect changed
ConfigPropsChange(p) ==
    /\ cfg.mounted
    /\ p # cfgProps
    /\ p.installed => Len(loads) < MaxInFlight
    /\ cfgProps' = p
    /\ LET r == ConfigEffect(cfg, loads, p)
       IN  cfg' = r.cfg /\ loads' = r.loads
    /\ UNCHANGED <<save, backend>>

\* the backend answers the i-th pending load: both promises resolved
LoadResolved(i) ==
    /\ i \in 1..Len(loads)
    /\ cfg' = AfterLoad(cfg, backend, loads[i], TRUE)
    /\ loads' = RemoveAt(loads, i)
    /\ UNCHANGED <<cfgProps, save, backend>>

\* the backend answers the i-th pending load: one of the promises rejected
LoadRejected(i) ==
    /\ i \in 1..Len(loads)
    /\ cfg' = AfterLoad(cfg, backend, loads[i], FALSE)
    /\ loads' = RemoveAt(loads, i)
    /\ UNCHANGED <<cfgProps, save, backend>>

\* ConfigForm calls onSave(newConfig): handleConfigSave up to its first await
\* (lines 523-527); the form is rendered under configSchema && !isLoadingConfig
SaveClick(v) ==
    /\ cfg.mounted
    /\ cfg.configSchema # Null
    /\ ~cfg.isLoadingConfig
    /\ ~cfg.isSavingConfig
    /\ save.stage = "idle"
    /\ cfg' = [cfg EXCEPT !.isSavingConfig = TRUE, !.saveError = Null,
                          !.saveWarning = Null]
    /\ save' = [stage |-> "setConfig", name |-> cfgProps.name, newConfig |-> v,
                warning |-> Null]
    /\ UNCHANGED <<cfgProps, loads, backend>>

\* setConfig resolves with { warning? } and getConfig is called
SetConfigResolved(w) ==
    /\ save.stage = "setConfig"
    /\ backend' = [backend EXCEPT ![save.name] = save.newConfig]
    /\ LET r == AfterSetConfig(cfg, save, TRUE, w)
       IN  cfg' = r.cfg /\ save' = r.save
    /\ UNCHANGED <<cfgProps, loads>>

\* setConfig rejects
SetConfigRejected ==
    /\ save.stage = "setConfig"
    /\ LET r == AfterSetConfig(cfg, save, FALSE, Null)
       IN  cfg' = r.cfg /\ save' = r.save
    /\ UNCHANGED <<cfgProps, loads, backend>>

\* the getConfig of the save resolves
GetConfigResolved ==
    /\ save.stage = "getConfig"
    /\ cfg' = AfterGetConfig(cfg, save, backend, TRUE)
    /\ save' = IdleSave
    /\ UNCHANGED <<cfgProps, loads, backend>>

\* the getConfig of the save rejects
GetConfigRejected ==
    /\ save.stage = "getConfig"
    /\ cfg' = AfterGetConfig(cfg, save, backend, FALSE)
    /\ save' = IdleSave
    /\ UNCHANGED <<cfgProps, loads, backend>>

PkgProps == [name : Packages, installed : BOOLEAN]

ConfigNext ==
    \/ (\E p \in PkgProps : MountConfig(p)) /\ UNCHANGED <<logVars, parseVars, installVars, modalVars>>
    \/ (\E p \in PkgProps : ConfigPropsChange(p))
          /\ UNCHANGED <<logVars, parseVars, installVars, modalVars>>
    \/ (\E i \in 1..MaxInFlight : LoadResolved(i))
          /\ UNCHANGED <<logVars, parseVars, installVars, modalVars>>
    \/ (\E i \in 1..MaxInFlight : LoadRejected(i))
          /\ UNCHANGED <<logVars, parseVars, installVars, modalVars>>
    \/ (\E v \in ConfigValues : SaveClick(v)) /\ UNCHANGED <<logVars, parseVars, installVars, modalVars>>
    \/ (\E w \in {Null, "restart failed"} : SetConfigResolved(w))
          /\ UNCHANGED <<logVars, parseVars, installVars, modalVars>>
    \/ SetConfigRejected /\ UNCHANGED <<logVars, parseVars, installVars, modalVars>>
    \/ GetConfigResolved /\ UNCHANGED <<logVars, parseVars, installVars, modalVars>>
    \/ GetConfigRejected /\ UNCHANGED <<logVars, parseVars, installVars, modalVars>>

(* ------------------- StoreEditorModal (part_003) ------------------------ *)

\* the store packages listStorePackages returns, in the order it returns them
StoreOrder == <<"marine", "casaos", "halos">>

StoreIds == {StoreOrder[i] : i \in 1..Len(StoreOrder)}

IdleJob == [stage |-> "idle", todo |-> <<>>, done |-> <<>>]

\* the state after the first render with isOpen false (lines 46-50)
ModalInit ==
    /\ modal = [isOpen |-> FALSE, stores |-> <<>>, loading |-> TRUE,
                saving |-> FALSE, error |-> Null, saveProgress |-> Null]
    /\ storeLoads = 0
    /\ job = IdleJob
    /\ installedStores = {"marine"}
    /\ modalLast = [event |-> "none", calls |-> <<>>]

\* packages.map(...) in loadStores (lines 59-65)
StoreStates(installed) ==
    [i \in 1..Len(StoreOrder) |->
        [id |-> StoreOrder[i],
         enabled |-> StoreOrder[i] \in installed,
         originallyInstalled |-> StoreOrder[i] \in installed]]

\* handleToggle (lines 80-88)
handleToggle(stores, id) ==
    [i \in 1..Len(stores) |->
        IF stores[i].id = id
          THEN [stores[i] EXCEPT !.enabled = ~stores[i].enabled]
          ELSE stores[i]]

\* line 91
hasChanges(stores) ==
    \E i \in 1..Len(stores) : stores[i].enabled # stores[i].originallyInstalled

WantsInstall(s) == s.enabled /\ ~s.originallyInstalled

WantsRemove(s) == ~s.enabled /\ s.originallyInstalled

\* lines 94-95
toInstall(stores) == SelectSeq(stores, WantsInstall)

toRemove(stores) == SelectSeq(stores, WantsRemove)

OpsOf(stores, kind) == [i \in 1..Len(stores) |-> [op |-> kind, id |-> stores[i].id]]

SaveQueue_RemovalsFirst(stores) ==
    OpsOf(toRemove(stores), "remove") \o OpsOf(toInstall(stores), "install")

\* the calls the two loops of handleSave make, in order (lines 109-118)
SaveQueue(stores) ==
    OpsOf(toInstall(stores), "install") \o OpsOf(toRemove(stores), "remove")

\* the text of setSaveProgress (lines 110, 116)
Progress(o) == <<IF o.op = "install" THEN "Installing" ELSE "Removing", o.id>>

\* what installPackage / removePackage do to the system when they succeed
Applied(installed, o) ==
    IF o.op = "install" THEN installed \cup {o.id} ELSE installed \ {o.id}

\* the parent shows the modal; the effect calls loadStores (lines 53-56, 73-77)
OpenModal ==
    /\ ~modal.isOpen
    /\ storeLoads < MaxInFlight
    /\ modal' = [modal EXCEPT !.isOpen = TRUE, !.loading = TRUE, !.error = Null]
    /\ storeLoads' = storeLoads + 1
    /\ modalLast' = [event |-> "open", calls |-> <<>>]
    /\ UNCHANGED <<job, installedStores>>

\* listStorePackages resolves (lines 58-65, 68-70)
StoresLoaded ==
    /\ storeLoads > 0
    /\ modal' = [modal EXCEPT !.stores = StoreStates(installedStores),
                              !.loading = FALSE]
    /\ storeLoads' = storeLoads - 1
    /\ modalLast' = [event |-> "storesLoaded", calls |-> <<>>]
    /\ UNCHANGED <<job, installedStores>>

\* listStorePackages rejects (lines 66-70)
StoresLoadFailed ==
    /\ storeLoads > 0
    /\ modal' = [modal EXCEPT !.error = "load failed", !.loading = FALSE]
    /\ storeLoads' = storeLoads - 1
    /\ modalLast' = [event |-> "storesLoadFailed", calls |-> <<>>]
    /\ UNCHANGED <<job, installedStores>>

\* a checkbox is clicked; the list is rendered when loading is over and the
\* checkboxes are disabled while saving (lines 147-157, 184-195)
ToggleStore(id) ==
    /\ modal.isOpen /\ ~modal.loading /\ ~modal.saving
    /\ Len(modal.stores) > 0
    /\ modal' = [modal EXCEPT !.stores = handleToggle(modal.stores, id)]
    /\ modalLast' = [event |-> "toggle", calls |-> <<>>]
    /\ UNCHANGED <<storeLoads, job, installedStores>>

\* the close button of the error alert (lines 159-176)
DismissError ==
    /\ modal.isOpen /\ ~modal.loading
    /\ Len(modal.stores) > 0
    /\ modal.error # Null
    /\ modal' = [modal EXCEPT !.error = Null]
    /\ modalLast' = [event |-> "dismissError", calls |-> <<>>]
    /\ UNCHANGED <<storeLoads, job, installedStores>>

\* handleSave up to its first await; the button disables it while loading or
\* saving, the handler itself returns early without changes (lines 98-111, 203)
HandleSave ==
    /\ modal.isOpen /\ ~modal.loading /\ ~modal.saving
    /\ IF ~hasChanges(modal.stores)
         THEN /\ modal' = [modal EXCEPT !.isOpen = FALSE]
              /\ modalLast' = [event |-> "handleSave", calls |-> <<"onClose">>]
              /\ UNCHANGED job
         ELSE /\ modal' = [modal EXCEPT !.saving = TRUE, !.error = Null,
                             !.saveProgress = Progress(Head(SaveQueue(modal.stores)))]
              /\ job' = [stage |-> "running", todo |-> SaveQueue(modal.stores),
                         done |-> <<>>]
              /\ modalLast' = [event |-> "handleSave", calls |-> <<>>]
    /\ UNCHANGED <<storeLoads, installedStores>>

\* the awaited installPackage / removePackage resolves: the loop goes on to the
\* next call, or the try block ends (lines 109-122, 126-128)
OpResolved ==
    /\ job.stage = "running"
    /\ installedStores' = Applied(installedStores, Head(job.todo))
    /\ IF Len(job.todo) > 1
         THEN /\ modal' = [modal EXCEPT !.saveProgress = Progress(job.todo[2])]
              /\ job' = [job EXCEPT !.todo = Tail(job.todo),
                                    !.done = Append(job.done, Head(job.todo))]
              /\ modalLast' = [event |-> "opResolved", calls |-> <<>>]
         ELSE /\ modal' = [modal EXCEPT !.saveProgress = Null, !.saving = FALSE,
                                        !.isOpen = FALSE]
              /\ job' = [stage |-> "succeeded", todo |-> <<>>,
                         done |-> Append(job.done, Head(job.todo))]
              /\ modalLast' = [event |-> "opResolved", calls |-> <<"onSave", "onClose">>]
    /\ UNCHANGED storeLoads

\* the awaited call rejects (lines 123-128)
OpRejected ==
    /\ job.stage = "running"
    /\ modal' = [modal EXCEPT !.error = "operation failed", !.saveProgress = Null,
                              !.saving = FALSE]
    /\ job' = [job EXCEPT !.stage = "failed"]
    /\ modalLast' = [event |-> "opRejected", calls |-> <<>>]
    /\ UNCHANGED <<storeLoads, installedStores>>

\* handleCancel: the Cancel button, the modal's close button, Escape (lines 132-141)
Cancel ==
    /\ modal.isOpen
    /\ IF ~modal.saving
         THEN /\ modal' = [modal EXCEPT !.isOpen = FALSE]
              /\ modalLast' = [event |-> "cancel", calls |-> <<"onClose">>]
         ELSE /\ modalLast' = [event |-> "cancel", calls |-> <<>>]
              /\ UNCHANGED modal
    /\ UNCHANGED <<storeLoads, job, installedStores>>

ModalNext ==
    \/ OpenModal /\ UNCHANGED <<logVars, parseVars, installVars, configVars>>
    \/ StoresLoaded /\ UNCHANGED <<logVars, parseVars, installVars, configVars>>
    \/ StoresLoadFailed /\ UNCHANGED <<logVars, parseVars, installVars, configVars>>
    \/ (\E id \in StoreIds : ToggleStore(id))
          /\ UNCHANGED <<logVars, parseVars, installVars, configVars>>
    \/ DismissError /\ UNCHANGED <<logVars, parseVars, installVars, configVars>>
    \/ HandleSave /\ UNCHANGED <<logVars, parseVars, installVars, configVars>>
    \/ OpResolved /\ UNCHANGED <<logVars, parseVars, installVars, configVars>>
    \/ OpRejected /\ UNCHANGED <<logVars, parseVars, installVars, configVars>>
    \/ Cancel /\ UNCHANGED <<logVars, parseVars, installVars, configVars>>

Init ==
    /\ LogInit
    /\ pending = <<>>
    /\ parser = IdleParser
    /\ rendered = <<>>
    /\ appDetails = NoDetails
    /\ onInstallCalls = <<>>
    /\ lastEvent = "none"
    /\ ConfigInit
    /\ ModalInit

ParseInit ==
    /\ LogInit
    /\ pending \in {<<l1, l2>> : l1 \in LinesOf(MaxChunks), l2 \in SecondLines}
    /\ parser = IdleParser
    /\ rendered = <<>>
    /\ appDetails = NoDetails
    /\ onInstallCalls = <<>>
    /\ lastEvent = "none"
    /\ ConfigInit
    /\ ModalInit

ParseNext ==
    \/ Call
    \/ Exec
    \/ ApplyCode

ParseSpec == ParseInit /\ [][ParseNext]_vars

InstallSpec == Init /\ [][InstallNext]_vars

ConfigSpec == Init /\ [][ConfigNext]_vars

ModalSpec == Init /\ [][ModalNext]_vars

\* first render and first run of both effects (lines 125-132, 141-181)
Mount(pkg, initialExpanded) ==
    /\ phase = "init"
    /\ initialExpanded => opened < MaxOpens
    /\ phase' = "mounted"
    /\ packageName' = pkg
    /\ isExpanded' = initialExpanded
    /\ Commit(EffectBody(EffectState, initialExpanded, pkg))
    /\ scrollTop' = 0
    /\ UNCHANGED <<shouldAutoScroll, nextId>>

\* the owning view removes the panel: the effect's cleanup runs
Unmount ==
    /\ phase = "mounted"
    /\ phase' = "unmounted"
    /\ Commit(EffectCleanup(EffectState))
    /\ scrollTop' = 0
    /\ UNCHANGED <<packageName, isExpanded, shouldAutoScroll, nextId>>

\* mutant: expanding starts the ids again at 0
Toggle_ResetsId ==
    /\ phase = "mounted"
    /\ ~isExpanded => opened < MaxOpens
    /\ isExpanded' = ~isExpanded
    /\ LET s == StreamEffect(EffectState, ~isExpanded, packageName)
       IN  /\ Commit(s)
           /\ scrollTop' = Clamp(~isExpanded,
                                 AutoScrollEffect(shouldAutoScroll, ~isExpanded, 0,
                                                  s.entries, s.error),
                                 s.entries, s.error)
    /\ nextId' = IF ~isExpanded THEN 0 ELSE nextId
    /\ UNCHANGED <<phase, packageName, shouldAutoScroll>>

\* onClick={() => setIsExpanded(!isExpanded)} (line 189) and the effects it triggers
Toggle ==
    /\ phase = "mounted"
    /\ ~isExpanded => opened < MaxOpens
    /\ isExpanded' = ~isExpanded
    /\ LET s == StreamEffect(EffectState, ~isExpanded, packageName)
       IN  /\ Commit(s)
           /\ scrollTop' = Clamp(~isExpanded,
                                 AutoScrollEffect(shouldAutoScroll, ~isExpanded, 0,
                                                  s.entries, s.error),
                                 s.entries, s.error)
    /\ UNCHANGED <<phase, packageName, shouldAutoScroll, nextId>>

\* the owning view passes another packageName (dependency of the stream effect)
ChangePackage(pkg) ==
    /\ phase = "mounted"
    /\ pkg # packageName
    /\ isExpanded => opened < MaxOpens
    /\ packageName' = pkg
    /\ LET s == StreamEffect(EffectState, isExpanded, pkg)
       IN  /\ Commit(s)
           /\ scrollTop' = Clamp(isExpanded,
                                 AutoScrollEffect(shouldAutoScroll, isExpanded, scrollTop,
                                                  s.entries, s.error),
                                 s.entries, s.error)
    /\ UNCHANGED <<phase, isExpanded, shouldAutoScroll, nextId>>

\* the transport delivers the next line of handle h: onLine(line) (lines 161-170)
\* and the auto-scroll effect the new entries trigger
DeliverLine(h, cap) ==
    /\ MayDeliver(handles, h)
    /\ nextId < cap
    /\ \/ handles[h].cursor < MaxBurst
       \/ nextId - handles[h].cursor <= MaxBurst
    /\ handles' = [handles EXCEPT ![h].cursor = @ + 1]
    /\ IF phase = "mounted"
       THEN /\ entries' = OnLineUpdater(entries, nextId,
                                        LineText(handles[h].pkg, handles[h].cursor))
            /\ nextId' = nextId + 1
            /\ scrollTop' = Clamp(ContainerPresent(phase, isExpanded),
                                  AutoScrollEffect(shouldAutoScroll,
                                      ContainerPresent(phase, isExpanded), scrollTop,
                                      entries', error),
                                  entries', error)
       ELSE UNCHANGED <<entries, nextId, scrollTop>>
    /\ UNCHANGED <<phase, packageName, isExpanded, error, streamRef,
                   shouldAutoScroll, cleanup, opened, tornDown>>

\* mutant: onError opens a new subscription by itself
TransportFail_Retry(h, msg) ==
    /\ MayDeliver(handles, h)
    /\ opened < MaxOpens
    /\ phase = "mounted"
    /\ handles' = OpenHandle([handles EXCEPT ![h].state = "Closed", ![h].failed = TRUE,
                                             ![h].released = @ + 1, ![h].cursor = 0,
                                             ![h].errCalls = @ + 1],
                             opened + 1, packageName, StreamOptions)
    /\ opened' = opened + 1
    /\ streamRef' = opened + 1
    /\ cleanup' = opened + 1
    /\ error' = msg
    /\ scrollTop' = Clamp(ContainerPresent(phase, isExpanded), scrollTop, entries, msg)
    /\ UNCHANGED <<phase, packageName, isExpanded, entries,
                   shouldAutoScroll, nextId, tornDown>>

\* the transport of handle h fails: onError(message) (line 172), terminal
TransportFail(h, msg) ==
    /\ MayDeliver(handles, h)
    /\ handles' = [handles EXCEPT ![h].state = "Closed", ![h].failed = TRUE,
                                  ![h].released = @ + 1, ![h].cursor = 0,
                                  ![h].errCalls = IF handles[h].onError
                                                  THEN @ + 1 ELSE @]
    /\ IF handles[h].onError /\ phase = "mounted"
       THEN /\ error' = msg
            /\ scrollTop' = Clamp(ContainerPresent(phase, isExpanded), scrollTop,
                                  entries, msg)
       ELSE UNCHANGED <<error, scrollTop>>
    /\ UNCHANGED <<phase, packageName, isExpanded, entries, streamRef,
                   shouldAutoScroll, nextId, cleanup, opened, tornDown>>

\* the container is scrolled to `top` and handleScroll observes it (lines 134-139)
Scroll(top) ==
    /\ ContainerPresent(phase, isExpanded)
    /\ top \in 0..MaxScrollTop(entries, error)
    /\ scrollTop' = top
    /\ shouldAutoScroll' = handleScroll(TRUE, shouldAutoScroll,
                                        ScrollHeight(entries, error), top,
                                        ClientHeight(entries, error))
    /\ UNCHANGED <<phase, packageName, isExpanded, entries, error, streamRef,
                   nextId, cleanup, handles, opened, tornDown>>

\* handleScroll runs while containerRef.current is null (line 136)
ScrollAbsent ==
    /\ phase = "mounted"
    /\ ~ContainerPresent(phase, isExpanded)
    /\ shouldAutoScroll' = handleScroll(FALSE, shouldAutoScroll, 0, 0, 0)
    /\ UNCHANGED <<phase, packageName, isExpanded, entries, error, streamRef,
                   nextId, cleanup, scrollTop, handles, opened, tornDown>>

\* scroll positions tried in Spec: top, bottom, and where the view already is
CoarseTargets == {0, MaxScrollTop(entries, error), scrollTop}

\* scroll positions tried in ScrollSpec: also those around the follow threshold
FineTargets ==
    CoarseTargets \cup
    {MaxScrollTop(entries, error) - d :
        d \in {FollowThreshold - 1, FollowThreshold, FollowThreshold + 1}}

Next ==
    \/ (\E pkg \in Packages, ie \in BOOLEAN : Mount(pkg, ie)) /\ UNCHANGED <<parseVars, installVars, configVars, modalVars>>
    \/ Unmount /\ UNCHANGED <<parseVars, installVars, configVars, modalVars>>
    \/ Toggle /\ UNCHANGED <<parseVars, installVars, configVars, modalVars>>
    \/ (\E pkg \in Packages : ChangePackage(pkg)) /\ UNCHANGED <<parseVars, installVars, configVars, modalVars>>
    \/ (\E h \in Handles : DeliverLine(h, MaxLines)) /\ UNCHANGED <<parseVars, installVars, configVars, modalVars>>
    \/ (\E h \in Handles, msg \in Messages : TransportFail(h, msg))
          /\ UNCHANGED <<parseVars, installVars, configVars, modalVars>>
    \/ (\E top \in CoarseTargets : Scroll(top)) /\ UNCHANGED <<parseVars, installVars, configVars, modalVars>>
    \/ ScrollAbsent /\ UNCHANGED <<parseVars, installVars, configVars, modalVars>>

Spec == Init /\ [][Next]_vars

ScrollNext ==
    \/ (\E pkg \in Packages, ie \in BOOLEAN : Mount(pkg, ie)) /\ UNCHANGED <<parseVars, installVars, configVars, modalVars>>
    \/ Unmount /\ UNCHANGED <<parseVars, installVars, configVars, modalVars>>
    \/ Toggle /\ UNCHANGED <<parseVars, installVars, configVars, modalVars>>
    \/ (\E pkg \in Packages : ChangePackage(pkg)) /\ UNCHANGED <<parseVars, installVars, configVars, modalVars>>
    \/ (\E h \in Handles : DeliverLine(h, MaxScrollLines)) /\ UNCHANGED <<parseVars, installVars, configVars, modalVars>>
    \/ (\E h \in Handles, msg \in Messages : TransportFail(h, msg))
          /\ UNCHANGED <<parseVars, installVars, configVars, modalVars>>
    \/ (\E top \in FineTargets : Scroll(top)) /\ UNCHANGED <<parseVars, installVars, configVars, modalVars>>
    \/ ScrollAbsent /\ UNCHANGED <<parseVars, installVars, configVars, modalVars>>

ScrollSpec == Init /\ [][ScrollNext]_vars

(* ------------------------------- claims -------------------------------- *)

Streaming(h) == handles[h].state = "Streaming"

\* the lines the transport has delivered through h so far, in delivery order
Delivered(h) == [i \in 1..handles[h].cursor |-> LineText(handles[h].pkg, i - 1)]

LastN(seq, n) ==
    IF Len(seq) <= n THEN seq ELSE SubSeq(seq, Len(seq) - n + 1, Len(seq))

Texts(es) == [i \in 1..Len(es) |-> es[i].text]

Collapsed == phase = "unmounted" \/ (phase = "mounted" /\ ~isExpanded)

\* C1: the buffer never holds more than MAX_LOG_LINES = 200 entries, whatever
\* deliveries, expands, collapses and package changes happened; an append to a
\* full buffer drops exactly the head entry, so that exactly 200 remain.
C1_BufferBounded ==
    /\ [](Len(entries) <= MAX_LOG_LINES)
    /\ [][(nextId' # nextId /\ Len(entries) = MAX_LOG_LINES) =>
            /\ Len(entries') = MAX_LOG_LINES
            /\ \A i \in 1..(MAX_LOG_LINES - 1) : entries'[i] = entries[i + 1]
            /\ entries'[MAX_LOG_LINES].id = nextId]_vars

\* C1 witness: a second subscription has overflowed the buffer
C1_Witness ==
    /\ opened >= 2
    /\ streamRef # 0
    /\ handles[streamRef].cursor > MAX_LOG_LINES
    /\ Len(entries) = MAX_LOG_LINES

\* C2: while a subscription is open, the buffer's texts are exactly the last
\* min(M, 200) of the M lines delivered through it, in delivery order.
C2_SnapshotIsTail ==
    \A h \in Handles :
        (Streaming(h) /\ streamRef = h) =>
            Texts(entries) = LastN(Delivered(h), MAX_LOG_LINES)

\* C2 witness: M = 202 > N lines delivered, the buffer starts at line 2
C2_Witness ==
    /\ streamRef # 0
    /\ Streaming(streamRef)
    /\ handles[streamRef].cursor = MAX_LOG_LINES + 2
    /\ Len(entries) = MAX_LOG_LINES
    /\ entries[1].text = LineText(handles[streamRef].pkg, 2)

\* C3: once a subscription has been torn down (collapse, package change,
\* unmount) it is closed, and no line or error of it is delivered any more:
\* its transport state never moves again, so neither buffer nor error change
\* on its behalf.
C3_NoCallbackAfterClose ==
    /\ [](\A h \in tornDown : handles[h].state = "Closed")
    /\ [][\A h \in tornDown : handles'[h] = handles[h]]_vars

\* C3 witness: a subscription that was streaming lines has been torn down
\* while its source still had lines to deliver
C3_Witness ==
    \E h \in tornDown :
        /\ handles[h].state = "Closed"
        /\ ~handles[h].failed
        /\ Len(entries) > 0
        /\ nextId < MaxLines

\* C4: a transport failure calls onError exactly once (the message is
\* recorded, the buffer is left alone), and the failed subscription delivers
\* nothing afterwards.
C4_ErrorOnceAndTerminal ==
    /\ [](\A h \in Handles :
            /\ handles[h].errCalls <= 1
            /\ handles[h].failed =>
                 (handles[h].errCalls = 1 /\ handles[h].state = "Closed"))
    /\ [][\A h \in Handles : handles[h].failed => handles'[h] = handles[h]]_vars
    /\ [][\A h \in Handles :
            (handles'[h].failed /\ ~handles[h].failed) =>
                /\ handles'[h].errCalls = handles[h].errCalls + 1
                /\ entries' = entries
                /\ phase = "mounted" => error' \in Messages]_vars

\* C4 witness: a subscription failed after delivering lines
C4_Witness ==
    \E h \in Handles :
        /\ handles[h].failed
        /\ handles[h].errCalls = 1
        /\ error \in Messages
        /\ streamRef = h
        /\ Len(entries) > 0

\* C5: close() is idempotent and every opened subscription's resource is
\* released at most once, exactly once when it is closed, and all of them
\* exactly once whenever the panel is collapsed or unmounted.
C5_ReleasedExactlyOnce ==
    /\ \A h \in Handles :
        /\ handles[h].released <= 1
        /\ (handles[h].state = "Closed") <=> (handles[h].released = 1)
        /\ handles[h].state # "Idle" =>
             CloseHandle(CloseHandle(handles, h), h) = CloseHandle(handles, h)
        /\ handles[h].state = "Closed" => CloseHandle(handles, h) = handles
    /\ Collapsed => \A h \in 1..opened : handles[h].released = 1

\* C5 witness: close() was called on a subscription that had already failed
C5_Witness ==
    /\ phase = "mounted"
    /\ ~isExpanded
    /\ \E h \in tornDown : handles[h].failed /\ handles[h].released = 1

\* C6: collapse, package change and unmount close the subscription that was
\* open before them; while the panel is collapsed or unmounted nothing is
\* streaming and streamRef is null.
C6_TornDownOnCollapse ==
    /\ [](Collapsed => (streamRef = 0 /\ \A h \in Handles : ~Streaming(h)))
    /\ [][(\/ isExpanded' # isExpanded
           \/ packageName' # packageName
           \/ (phase' = "unmounted" /\ phase # "unmounted")) =>
            \A h \in Handles : Streaming(h) => handles'[h].state = "Closed"]_vars

\* C6 witness: an expanded panel with an open subscription was unmounted
C6_Witness ==
    /\ phase = "unmounted"
    /\ isExpanded
    /\ opened >= 1
    /\ handles[opened].state = "Closed"
    /\ ~handles[opened].failed

\* C7: at most one subscription streams at a time, it is the one streamRef
\* holds and it serves the current package; when a new one is opened every
\* earlier one is already closed; a handle's package never changes.
C7_OneAtATime ==
    /\ [](Cardinality({h \in Handles : Streaming(h)}) <= 1)
    /\ [](\A h \in Handles :
            Streaming(h) => (streamRef = h /\ handles[h].pkg = packageName))
    /\ [][opened' # opened =>
            \A h \in 1..opened : handles'[h].state = "Closed"]_vars
    /\ [][\A h \in Handles :
            handles[h].state # "Idle" => handles'[h].pkg = handles[h].pkg]_vars

\* C7 witness: the package changed, the first handle is closed, the second streams
C7_Witness ==
    /\ opened >= 2
    /\ handles[1].state = "Closed"
    /\ ~handles[1].failed
    /\ Streaming(2)
    /\ handles[1].pkg # handles[2].pkg

\* C8: after an append, the view is at the bottom if the follow flag was set
\* and where it was if the flag was clear.
C8_FollowOnAppend ==
    [][nextId' # nextId =>
        IF shouldAutoScroll
        THEN scrollTop' = MaxScrollTop(entries', error')
        ELSE scrollTop' = scrollTop]_vars

\* C8 witness: the user scrolled 30 units up, then a line arrived and the view
\* stayed, one line further from the bottom
C8_Witness ==
    /\ ~shouldAutoScroll
    /\ streamRef # 0
    /\ scrollTop > 0
    /\ MaxScrollTop(entries, error) - scrollTop = FollowThreshold + LineHeight

\* C9: the follow flag starts true, and after every scroll observation it is
\* exactly (scrollHeight - scrollTop - clientHeight < 30).
C9_FlagFromScroll ==
    /\ [](phase = "init" => shouldAutoScroll)
    /\ [][(\E top \in FineTargets : Scroll(top)) =>
            shouldAutoScroll' =
                (ScrollHeight(entries', error') - scrollTop'
                    - ClientHeight(entries', error') < 30)]_vars

\* C9 witness: observed exactly 30 units above the bottom, the flag is false
C9_Witness ==
    /\ ContainerPresent(phase, isExpanded)
    /\ ~shouldAutoScroll
    /\ MaxScrollTop(entries, error) > 30 + 1
    /\ MaxScrollTop(entries, error) - scrollTop = 30

\* the state of the end-to-end scenario: a subscription for "signalk-server"
\* has delivered 250 lines
ScenarioDone(h) ==
    /\ Streaming(h)
    /\ streamRef = h
    /\ handles[h].pkg = "signalk-server"
    /\ handles[h].cursor = 250

\* C10 as stated: after 250 lines the snapshot has length 200 and its first
\* entry is line 51 (0-indexed) of the input.
C10_FirstIsLine51 ==
    \A h \in Handles :
        ScenarioDone(h) =>
            /\ Len(entries) = 200
            /\ entries[1].text = LineText("signalk-server", 51)

\* C10 amended: after 250 lines the snapshot has length 200 and its first
\* entry is line 50 (0-indexed) of the input, the 51st line.
C10_FirstIsLine50 ==
    \A h \in Handles :
        ScenarioDone(h) =>
            /\ Len(entries) = 200
            /\ entries[1].text = LineText("signalk-server", 50)
            /\ entries[200].text = LineText("signalk-server", 249)

\* C10 witness: the scenario has run to its end
C10_Witness == \E h \in Handles : ScenarioDone(h) /\ Len(entries) = 200

\* C11: the ids of the buffered entries are contiguous from head to tail
\* (each is its predecessor's plus one, the i-th is the first plus i - 1),
\* hence strictly increasing and pairwise distinct, and below nextId.
C11_IdsContiguous ==
    /\ \A i \in 1..(Len(entries) - 1) : entries[i + 1].id = entries[i].id + 1
    /\ \A i \in 1..Len(entries) :
          /\ entries[i].id = entries[1].id + (i - 1)
          /\ entries[i].id < nextId

\* C11 witness: a full buffer after eviction whose ids do not start at 0
C11_Witness ==
    /\ Len(entries) = MAX_LOG_LINES
    /\ entries[1].id >= 2
    /\ entries[MAX_LOG_LINES].id = nextId - 1
    /\ handles[opened].cursor > MAX_LOG_LINES + 1

(* ------------------------- claims on parseAnsi ------------------------- *)

Returned == parser.pc = "returned"

DefaultStyle == [color |-> Undefined, bold |-> FALSE]

StyleOf(x) == [color |-> x.color, bold |-> x.bold]

RECURSIVE JoinTexts(_)
JoinTexts(ss) == IF ss = <<>> THEN <<>> ELSE Head(ss).text \o JoinTexts(Tail(ss))

\* the grammar ESC [ params m, stated on a whole string
IsSgr(q) ==
    /\ Len(q) >= 3
    /\ q[1] = Esc
    /\ q[2] = "["
    /\ q[Len(q)] = "m"
    /\ \A k \in 3..(Len(q) - 1) : q[k] \in Digits \cup {";"}

\* where the SGR sequences that start at character i of t end (at most one place)
SgrEnds(t, i) == {j \in i..Len(t) : IsSgr(SubSeq(t, i, j))}

HasSgr(t) == \E i \in 1..Len(t) : SgrEnds(t, i) # {}

\* every escape character of t starts an SGR sequence
AllEscapesAreSgr(t) == \A i \in 1..Len(t) : t[i] = Esc => SgrEnds(t, i) # {}

\* t without its SGR sequences
RECURSIVE Strip(_)
Strip(t) ==
    IF t = <<>> THEN <<>>
    ELSE IF SgrEnds(t, 1) # {}
    THEN Strip(SubSeq(t, (CHOOSE j \in SgrEnds(t, 1) : TRUE) + 1, Len(t)))
    ELSE <<t[1]>> \o Strip(Tail(t))

\* the sequence q is the last thing parseAnsi consumed
JustConsumed(q) ==
    /\ parser.pc = "scan"
    /\ parser.lastIndex >= Len(q)
    /\ SubSeq(parser.text, parser.lastIndex - Len(q) + 1, parser.lastIndex) = q

\* parseAnsi run to its return from the activation p
RECURSIVE Run(_)
Run(p) ==
    IF p.pc = "returned" THEN p
    ELSE IF p.pc = "codes" THEN Run(CodeStep(p))
    ELSE Run(ExecStep(p))

\* C12: for a line whose escape characters all start well-formed SGR sequences,
\* the texts of the returned runs, concatenated in order, are the line with
\* those sequences removed.
C12_RoundTrip ==
    (Returned /\ AllEscapesAreSgr(parser.text))
        => JoinTexts(parser.spans) = Strip(parser.text)

\* C12 witness: text before and after a sequence
C12_Witness ==
    /\ Returned
    /\ AllEscapesAreSgr(parser.text)
    /\ Len(parser.spans) = 2
    /\ Len(Strip(parser.text)) = 2
    /\ Len(parser.text) > 2 + 2

\* C13 as stated: a line without escape sequences gives exactly one run, the
\* whole input in the default style.
C13_PlainIsOneRun ==
    (Returned /\ ~HasSgr(parser.text))
        => parser.spans = <<[text |-> parser.text, color |-> Undefined, bold |-> FALSE]>>

\* C13 amended: a non-empty line without escape sequences gives exactly one
\* run, the whole input in the default style.
C13_NonEmptyPlainIsOneRun ==
    (Returned /\ ~HasSgr(parser.text) /\ parser.text # <<>>)
        => parser.spans = <<[text |-> parser.text, color |-> Undefined, bold |-> FALSE]>>

\* C13 witness: a returned parse of a plain line of three characters
C13_Witness ==
    /\ Returned
    /\ parser.text = <<"a", "3", "m">>
    /\ Len(parser.spans) = 1

\* C14: one step of the code loop: 0 clears color and bold, 1 sets bold and
\* keeps the color, 39 clears the color and keeps bold, a code of 30-37 or
\* 90-97 sets the color to its palette entry and keeps bold.
C14_SingleCode ==
    [][parser.pc = "codes" =>
        LET code == Head(parser.params) IN
        /\ code = 0 => parser'.color = Undefined /\ ~parser'.bold
        /\ code = 1 => parser'.bold /\ parser'.color = parser.color
        /\ code = 39 => parser'.color = Undefined /\ parser'.bold = parser.bold
        /\ code \in (30..37) \cup (90..97) =>
              /\ parser'.color = ANSI_COLORS[code]
              /\ parser'.color # Undefined
              /\ parser'.bold = parser.bold
        /\ code = 31 => parser'.color = "#c00"
        /\ code = 32 => parser'.color = "#0a0"
        /\ code = 91 => parser'.color = "#f55"]_vars

\* C14 witness: ESC[39m was applied to a bold green style and left it bold
C14_Witness ==
    /\ JustConsumed(Sgr(<<"3", "9">>))
    /\ parser.bold
    /\ parser.color = Undefined
    /\ \E k \in 1..Len(parser.spans) :
          parser.spans[k].bold /\ parser.spans[k].color = "#0a0"

\* C15: the codes of a sequence are consumed first to last, each applied to
\* the style its predecessors left, so a later code overrides an earlier one
\* (1;32 gives bold green, 32;0 gives the default style); the sequence adds
\* no run of its own.
C15_LeftToRight ==
    /\ [][parser.pc = "codes" =>
            /\ StyleOf(parser') = ApplySgr(StyleOf(parser), Head(parser.params))
            /\ parser'.params = Tail(parser.params)
            /\ parser'.spans = parser.spans]_vars
    /\ [][(parser.pc = "scan" /\ parser'.pc = "codes") =>
            /\ StyleOf(parser') = StyleOf(parser)
            /\ \E start \in (parser.lastIndex + 1)..parser'.lastIndex :
                  /\ IsSgr(SubSeq(parser.text, start, parser'.lastIndex))
                  /\ parser'.spans =
                        IF start = parser.lastIndex + 1
                        THEN parser.spans
                        ELSE Append(parser.spans,
                                 [text |-> SubSeq(parser.text, parser.lastIndex + 1, start - 1),
                                  color |-> parser.color, bold |-> parser.bold])]_vars
    /\ [](JustConsumed(Sgr(<<"1", ";", "3", "2">>))
            => parser.bold /\ parser.color = "#0a0")
    /\ [](JustConsumed(Sgr(<<"3", "2", ";", "0">>))
            => StyleOf(parser) = DefaultStyle)
    /\ []((Returned /\ parser.text \in {Sgr(<<"1", ";", "3", "2">>), Sgr(<<"3", "2", ";", "0">>)})
            => parser.spans = <<>>)

\* C15 witness: ESC[1;32m followed by text returned one bold green run
C15_Witness ==
    /\ Returned
    /\ parser.text = Sgr(<<"1", ";", "3", "2">>) \o <<"a">>
    /\ parser.spans = <<[text |-> <<"a">>, color |-> "#0a0", bold |-> TRUE]>>

\* C16: an escape sequence outside the grammar ESC [ params m contributes no
\* text to any run: no run holds an escape character.
C16_MalformedInert ==
    Returned =>
        \A k \in 1..Len(parser.spans) :
            \A c \in 1..Len(parser.spans[k].text) : parser.spans[k].text[c] # Esc

\* C17: a code other than 0, 1, 39, 30-37 and 90-97 leaves color and bold as
\* they were, wherever it stands in the parameter list, and the loop goes on.
C17_UnknownCodeIgnored ==
    [][(parser.pc = "codes"
          /\ Head(parser.params) \notin {0, 1, 39} \cup (30..37) \cup (90..97))
        => /\ parser'.color = parser.color
           /\ parser'.bold = parser.bold
           /\ parser'.params = Tail(parser.params)
           /\ parser'.pc \in {"codes", "scan"}]_vars

\* C17 witness: code 4 came after 31 in one sequence and the color stayed red
C17_Witness ==
    /\ JustConsumed(Sgr(<<"3", "1", ";", "4">>))
    /\ parser.color = "#c00"
    /\ ~parser.bold

\* C18: each call starts with no color and not bold whatever was parsed
\* before; every run carries the style current when it was emitted, so a style
\* set without a reset reaches the end of the line and none of the next; the
\* result is that of parsing the line on its own.
C18_StylePerLine ==
    /\ [][parser'.pc = "scan" /\ parser.pc \in {"idle", "returned"}
            => StyleOf(parser') = DefaultStyle /\ parser'.spans = <<>>]_vars
    /\ [][parser'.spans # parser.spans /\ parser'.spans # <<>>
            => StyleOf(parser'.spans[Len(parser'.spans)]) = StyleOf(parser)]_vars
    /\ [](Returned => parser = Run(Enter(IdleParser, parser.text)))
    /\ []((Len(rendered) = 2 /\ parser.text = <<"a">>)
            => rendered[2] = <<[text |-> <<"a">>, color |-> Undefined, bold |-> FALSE]>>)

\* C18 witness: the first line ended in bold red text, the second line's
\* text is neither
C18_Witness ==
    /\ Len(rendered) = 2
    /\ rendered[1] # <<>>
    /\ rendered[1][Len(rendered[1])].color = "#c00"
    /\ rendered[1][Len(rendered[1])].bold
    /\ rendered[2] = <<[text |-> <<"a">>, color |-> Undefined, bold |-> FALSE]>>

\* C19: parseAnsi of the empty line returns no run.
C19_EmptyLine ==
    (Returned /\ parser.text = <<>>) => parser.spans = <<>>

\* C19 witness: the empty line was parsed
C19_Witness ==
    /\ Returned
    /\ parser.text = <<>>
    /\ parser.spans = <<>>
    /\ Len(rendered) = 1

(* ------------------------- claims on AppDetails ------------------------ *)

\* pkg is not installed and its status carries an install warning
Warned(d) == InstallWarning(d.pkg.status) /\ ~d.pkg.installed

\* C20: Install on a warned package calls nothing and opens the dialog;
\* onInstall is called with pkg only by 'Install anyway', by Install on a
\* package that is not warned, or by Update; Cancel and closing the dialog
\* call nothing and close it; Install on a package that is not warned and
\* Update call onInstall(pkg) at once and no dialog is open afterwards.
C20_ConfirmBeforeInstall ==
    /\ [][(lastEvent' = "Install" /\ Warned(appDetails)) =>
            /\ onInstallCalls' = onInstallCalls
            /\ DialogOpen(appDetails')]_vars
    /\ [][onInstallCalls' # onInstallCalls =>
            /\ onInstallCalls' = Append(onInstallCalls, appDetails.pkg)
            /\ \/ lastEvent' = "InstallAnyway" /\ DialogOpen(appDetails)
               \/ lastEvent' = "Install" /\ ~Warned(appDetails)
               \/ lastEvent' = "Update" /\ appDetails.pkg.installed]_vars
    /\ [][lastEvent' \in {"Cancel", "Close"} =>
            /\ onInstallCalls' = onInstallCalls
            /\ ~DialogOpen(appDetails')]_vars
    /\ [][((lastEvent' = "Install" /\ ~Warned(appDetails)) \/ lastEvent' = "Update") =>
            /\ onInstallCalls' = Append(onInstallCalls, appDetails.pkg)
            /\ ~DialogOpen(appDetails')]_vars

\* C20 witness: 'Install anyway' has just passed a warned package to onInstall
\* for the first time, and the dialog is closed
C20_Witness ==
    /\ lastEvent = "InstallAnyway"
    /\ Len(onInstallCalls) = 1
    /\ onInstallCalls[1] = appDetails.pkg
    /\ Warned(appDetails)
    /\ ~DialogOpen(appDetails)

(* ------------------- further claims on the log panel ------------------- *)

\* C22: a subscription only moves Idle -> Streaming -> Closed; it becomes
\* Closed by close() (its effect is torn down) or by a transport failure;
\* nothing leaves Closed; every open takes a handle that was never used and
\* puts it in Streaming.
C22_HandleLifeCycle ==
    /\ [][\A h \in Handles :
            /\ handles[h].state = "Closed" => handles'[h].state = "Closed"
            /\ handles[h].state = "Streaming" => handles'[h].state # "Idle"
            /\ (handles[h].state = "Idle" /\ handles'[h].state # "Idle") =>
                  handles'[h].state = "Streaming"
            /\ (handles[h].state = "Streaming" /\ handles'[h].state = "Closed") =>
                  (handles'[h].failed \/ h \in tornDown')]_vars
    /\ [][(streamRef' # 0 /\ streamRef' # streamRef) =>
            /\ handles[streamRef'].state = "Idle"
            /\ handles'[streamRef'].state = "Streaming"
            /\ streamRef' = opened + 1
            /\ opened' = opened + 1]_vars

\* C22 witness: the first subscription failed, the panel was collapsed and
\* expanded again, and a second handle streams while the first stays Closed
C22_Witness ==
    /\ opened = 2
    /\ handles[1].state = "Closed"
    /\ handles[1].failed
    /\ 1 \in tornDown
    /\ streamRef = 2
    /\ handles[2].state = "Streaming"
    /\ handles[2].cursor > 0

\* C23 as stated: a subscription is opened only by a step that expands the
\* panel or changes the package, one open per such step.
C23_OpenOnlyOnUserEvent ==
    [][opened' # opened =>
        /\ opened' = opened + 1
        /\ phase = "mounted"
        /\ isExpanded'
        /\ (~isExpanded \/ packageName' # packageName)]_vars

\* C23 amended: a subscription is opened only by the mount of a panel that
\* starts expanded, by a step that expands the panel or by a change of
\* package, one open per such step; a transport failure opens nothing and
\* leaves nothing streaming.
C23_NoAutomaticRetry ==
    /\ [][opened' # opened =>
            /\ opened' = opened + 1
            /\ isExpanded'
            /\ \/ phase = "init" /\ phase' = "mounted"
               \/ phase = "mounted" /\ ~isExpanded
               \/ phase = "mounted" /\ packageName' # packageName]_vars
    /\ [][\A h \in Handles :
            (handles'[h].failed /\ ~handles[h].failed) =>
                /\ opened' = opened
                /\ streamRef' = streamRef
                /\ \A g \in Handles : ~Streaming(g)']_vars

\* C23 witness: after a transport failure the user collapsed and expanded the
\* panel, which opened the second subscription
C23_Witness ==
    /\ opened = 2
    /\ handles[1].failed
    /\ handles[1].pkg = handles[2].pkg
    /\ Streaming(2)
    /\ error = Null
    /\ isExpanded

\* C24: the id counter never goes back: a step that empties the buffer leaves
\* it alone, and every new entry takes the counter's value, which is above
\* every id given before, across collapse, expand and package change.
C24_IdsNeverReused ==
    /\ [][nextId' >= nextId]_vars
    /\ [][opened' # opened => (entries' = <<>> /\ nextId' = nextId)]_vars
    /\ [][nextId' # nextId =>
            /\ nextId' = nextId + 1
            /\ entries'[Len(entries')].id = nextId
            /\ \A i \in 1..Len(entries) : entries[i].id < nextId]_vars

\* C24 witness: the first entry of the second subscription has an id above
\* those of the first subscription's entries
C24_Witness ==
    /\ opened = 2
    /\ handles[2].cursor = 1
    /\ Len(entries) = 1
    /\ entries[1].id >= 2
    /\ nextId = entries[1].id + 1

\* C25: the follow flag changes only in a step that observes a scroll of the
\* rendered container and changes nothing else of the panel; line arrival,
\* eviction, transport failure, collapse, expand, package change and a scroll
\* handled without a container leave it as it was.
C25_FlagOnlyByScroll ==
    [][shouldAutoScroll' # shouldAutoScroll =>
        /\ ContainerPresent(phase, isExpanded)
        /\ shouldAutoScroll' = AtBottom(ScrollHeight(entries, error), scrollTop',
                                        ClientHeight(entries, error))
        /\ UNCHANGED <<phase, packageName, isExpanded, entries, error, streamRef,
                       nextId, cleanup, handles, opened, tornDown>>]_vars

\* C25 witness: the flag is off, the panel has been collapsed, and lines had
\* been evicted before
C25_Witness ==
    /\ ~shouldAutoScroll
    /\ phase = "mounted"
    /\ ~isExpanded
    /\ nextId > MAX_LOG_LINES
    /\ Len(entries) = MAX_LOG_LINES

\* C27: while a subscription is referenced every entry of the buffer is a
\* line of its package, and a step that appends an entry is a delivery of the
\* referenced subscription, which has not been torn down.
C27_SingleWriter ==
    /\ [](streamRef # 0 =>
            /\ handles[streamRef].pkg = packageName
            /\ \A i \in 1..Len(entries) : entries[i].text[1] = packageName)
    /\ [][nextId' # nextId =>
            /\ streamRef # 0
            /\ streamRef \notin tornDown
            /\ handles'[streamRef].cursor = handles[streamRef].cursor + 1
            /\ \A h \in Handles \ {streamRef} : handles'[h] = handles[h]]_vars

\* C27 witness: the package changed while the panel was expanded, after lines
\* of the first package had arrived, and a line of the second is in the buffer
C27_Witness ==
    /\ opened = 2
    /\ isExpanded
    /\ 1 \in tornDown
    /\ ~handles[1].failed
    /\ handles[1].pkg # handles[2].pkg
    /\ handles[2].cursor = 1
    /\ nextId >= 2
    /\ Len(entries) = 1

\* C28: every open empties the buffer and clears the error; a recorded error
\* changes by nothing but an open; while an error is recorded the rendered
\* container shows the failure message, not the entries.
C28_ErrorShownUntilOpen ==
    /\ [][opened' # opened => (entries' = <<>> /\ error' = Null)]_vars
    /\ [][(error # Null /\ error' # error) => opened' # opened]_vars
    /\ []((ContainerPresent(phase, isExpanded) /\ error # Null)
            => Shows(entries, error) = "failure")

(* ---------------------- further claim on parseAnsi --------------------- *)

\* the non-empty stretches of t between its SGR sequences, in order
RECURSIVE SegmentsFrom(_, _)
SegmentsFrom(t, cur) ==
    LET done == IF cur = <<>> THEN <<>> ELSE <<cur>>
    IN  IF t = <<>> THEN done
        ELSE IF SgrEnds(t, 1) # {}
        THEN done \o SegmentsFrom(SubSeq(t, (CHOOSE j \in SgrEnds(t, 1) : TRUE) + 1, Len(t)),
                                  <<>>)
        ELSE SegmentsFrom(Tail(t), Append(cur, t[1]))

\* C26 as stated: no two consecutive runs of a line have the same color and
\* the same bold value.
C26_NeighboursDiffer ==
    Returned =>
        \A k \in 1..(Len(parser.spans) - 1) :
            StyleOf(parser.spans[k]) # StyleOf(parser.spans[k + 1])

\* C26 amended: the runs are the non-empty stretches of text between the
\* escape sequences of the line, one run per stretch, in order.
C26_RunsAreSegments ==
    Returned => Texts(parser.spans) = SegmentsFrom(parser.text, <<>>)

\* C26 witness: two runs around a sequence, both in the same style
C26_Witness ==
    /\ Returned
    /\ Len(parser.spans) = 2
    /\ StyleOf(parser.spans[1]) = StyleOf(parser.spans[2])
    /\ HasSgr(parser.text)

(* ------------------ claims on the AppDetails configuration ------------- *)

\* C21: the save calls getConfig only in the step in which setConfig
\* succeeded; when setConfig fails nothing is reloaded, the held values stay,
\* a save error is recorded; values held change by a save only when its
\* getConfig resolved; whenever a save ends the saving flag is false.
C21_ReloadAfterSave ==
    /\ [][(save'.stage = "getConfig" /\ save.stage # "getConfig") =>
            /\ save.stage = "setConfig"
            /\ backend'[save.name] = save.newConfig
            /\ cfg' = cfg]_vars
    /\ [][(save.stage = "setConfig" /\ save'.stage = "idle") =>
            /\ cfg'.config = cfg.config
            /\ cfg'.saveError # Null
            /\ backend' = backend
            /\ ~cfg'.isSavingConfig]_vars
    /\ [][(save.stage = "getConfig" /\ save'.stage = "idle") =>
            /\ ~cfg'.isSavingConfig
            /\ \/ cfg'.config = ConfigOf(backend, save.name) /\ cfg'.saveError = Null
               \/ cfg'.config = cfg.config /\ cfg'.saveError # Null]_vars
    /\ [](save.stage # "idle" => cfg.isSavingConfig)

\* C21 witness: a save has ended well, the held values are the saved ones,
\* and the backend had stored something else before
C21_Witness ==
    /\ save.stage = "idle"
    /\ ~cfg.isSavingConfig
    /\ cfg.saveError = Null
    /\ cfg.saveWarning = "restart failed"
    /\ cfg.config = <<cfgProps.name, 1>>
    /\ backend[cfgProps.name] = 1

\* C29: once no load is awaiting the backend, the schema and values held
\* for an installed package are those of the package shown, which is the one
\* requested last, never those of a package requested before it.
C29_LastRequestWins ==
    (cfg.mounted /\ loads = <<>> /\ save.stage = "idle" /\ cfgProps.installed
       /\ cfg.configSchema # Null) =>
        /\ cfg.configSchema = SchemaOf(cfgProps.name)
        /\ cfg.config # EmptyConfig
        /\ cfg.config[1] = cfgProps.name

(* --------------------------- StoreEditorModal --------------------------- *)

AllOps == job.done \o job.todo

OpSet(q) == {q[i] : i \in 1..Len(q)}

Expected(stores) ==
    {[op |-> "install", id |-> stores[i].id] :
        i \in {k \in 1..Len(stores) : stores[k].enabled /\ ~stores[k].originallyInstalled}}
    \cup
    {[op |-> "remove", id |-> stores[i].id] :
        i \in {k \in 1..Len(stores) : ~stores[k].enabled /\ stores[k].originallyInstalled}}

SaveStarts == job.stage # "running" /\ job'.stage = "running"

\* C30: a save of the store editor makes its calls one at a time, every install
\* of a newly enabled store before any removal of a newly disabled one; the first
\* call that fails ends the save with the error recorded, nothing further run
\* and neither onSave nor onClose called; onSave and then onClose are called
\* only when the last call has succeeded; a save without pending changes only
\* calls onClose; saving is true exactly while a save is running.
C30_SaveSequence ==
    /\ [](/\ \A i, j \in 1..Len(AllOps) :
                (i < j) => ~(AllOps[i].op = "remove" /\ AllOps[j].op = "install")
          /\ modal.saving <=> (job.stage = "running")
          /\ (job.stage = "running") => (job.todo # <<>> /\ modal.isOpen))
    /\ [][/\ SaveStarts =>
               /\ hasChanges(modal.stores)
               /\ OpSet(job'.todo) = Expected(modal.stores)
               /\ Len(job'.todo) = Cardinality(Expected(modal.stores))
               /\ job'.done = <<>>
               /\ modalLast'.calls = <<>>
          /\ (installedStores' # installedStores \/ (job'.done # job.done /\ ~SaveStarts)) =>
               /\ job.stage = "running"
               /\ installedStores' = Applied(installedStores, Head(job.todo))
               /\ job'.done = Append(job.done, Head(job.todo))
               /\ job'.todo = Tail(job.todo)
          /\ (job.stage = "running" /\ job'.stage = "failed") =>
               /\ installedStores' = installedStores
               /\ job'.done = job.done
               /\ modalLast'.calls = <<>>
               /\ modal'.error # Null
               /\ ~modal'.saving
               /\ modal'.isOpen
          /\ (job.stage = "running" /\ job'.stage = "succeeded") =>
               /\ Len(job.todo) = 1
               /\ modalLast'.calls = <<"onSave", "onClose">>
               /\ ~modal'.saving
          /\ (modalLast' # modalLast /\ modalLast'.calls # <<>>) =>
               \/ /\ modalLast'.calls = <<"onSave", "onClose">>
                  /\ job.stage = "running" /\ job'.stage = "succeeded"
               \/ /\ modalLast'.calls = <<"onClose">>
                  /\ job.stage # "running"
                  /\ job' = job
                  /\ installedStores' = installedStores
          /\ (modalLast' # modalLast /\ modalLast'.event = "handleSave"
                /\ ~hasChanges(modal.stores)) =>
               /\ modalLast'.calls = <<"onClose">>
               /\ job' = job
               /\ installedStores' = installedStores
               /\ ~modal'.saving
         ]_vars

C30_Witness ==
    /\ job.stage = "succeeded"
    /\ Len(job.done) = 3
    /\ \E i, j \in 1..3 : job.done[i].op = "install" /\ job.done[j].op = "remove"
    /\ modalLast.calls = <<"onSave", "onClose">>
    /\ ~modal.saving

====
